---- MODULE Spec2Model ----
(***************************************************************************)
(* Model of the filesystem backend of marky (src-tauri/src/main.rs): the   *)
(* name guard, the unique-path resolver, the entry mutators (create,       *)
(* rename, move, copy, delete), the recursive scan and the folder watcher. *)
(*                                                                         *)
(* A name is a sequence of one-character strings, a path is a sequence of  *)
(* names below the filesystem root (<<>> is the root itself), and the      *)
(* filesystem is a function from the paths that exist to their entries.    *)
(***************************************************************************)
EXTENDS Integers, Sequences, FiniteSets, TLC

VARIABLES
    fs,     \* the filesystem: path -> [is_dir, content]
    last,   \* the call that has returned and whose result the caller has not yet
            \* taken: its inputs, its result, the filesystem before it
    pend,   \* per thread, the call in flight between its checks and its write
    watcher_state,  \* WatcherState._watcher: None, or the debouncer it holds
    debouncers,     \* the debouncers created so far: state, watched path, queue
    calls,          \* per thread, the watch_folder or stop_watching call in flight
    emitted,        \* what the callback of the last delivered batch emitted
    stop_returned   \* the last call that wrote watcher_state was stop_watching

\* the variables of the watcher
wvars == <<watcher_state, debouncers, calls, emitted, stop_returned>>

vars == <<fs, last, pend, watcher_state, debouncers, calls, emitted, stop_returned>>

----------------------------------------------------------------------------
(* Bounds of the model *)

\* The longest path, in components, the modelled OS accepts when it creates
\* an entry (ENAMETOOLONG beyond it).
MaxDepth == 3

\* The most entries (the root included) a filesystem of the model holds.
MaxEntries == 4

\* The longest name, in characters, an entry of a filesystem of the model has.
MaxNameLen == 4

\* The longest source list given to copy_entries_to_folder.
MaxSources == 2

\* The most debouncers the watch_folder calls of a run create.
MaxSessions == 3

\* The most events a debouncer holds between two deliveries.
MaxBatch == 2

----------------------------------------------------------------------------
(* Names, paths *)

Root == <<>>

Parent(p) == SubSeq(p, 1, Len(p) - 1)

FileName(p) == p[Len(p)]

Join(dir, name) == Append(dir, name)

\* Path::starts_with: component-wise prefix
StartsWith(p, base) ==
    /\ Len(base) <= Len(p)
    /\ SubSeq(p, 1, Len(base)) = base

\* str::starts_with('.')
NameStartsWithDot(name) == Len(name) > 0 /\ name[1] = "."

DigitChar == <<"0", "1", "2", "3", "4", "5", "6", "7", "8", "9">>

\* the decimal rendering of a counter by format!("{}")
RECURSIVE FormatCounter(_)
FormatCounter(n) ==
    IF n < 10 THEN <<DigitChar[n + 1]>>
    ELSE FormatCounter(n \div 10) \o <<DigitChar[(n % 10) + 1]>>

\* str::rfind('.'): the 1-based index of the last '.', 0 when there is none
RECURSIVE RFindDotFrom(_, _)
RFindDotFrom(name, i) ==
    IF i = 0 THEN 0
    ELSE IF name[i] = "." THEN i
    ELSE RFindDotFrom(name, i - 1)

RFindDot(name) == RFindDotFrom(name, Len(name))

----------------------------------------------------------------------------
(* Results *)

\* the path of a result or an input that holds none
NoPath == << <<"-">> >>

Ok(p) == [ok |-> TRUE, err |-> "", path |-> p, paths |-> <<>>, entries |-> <<>>]
OkList(ps) == [ok |-> TRUE, err |-> "", path |-> NoPath, paths |-> ps, entries |-> <<>>]
OkEntries(es) == [ok |-> TRUE, err |-> "", path |-> NoPath, paths |-> <<>>, entries |-> es]
OkUnit == [ok |-> TRUE, err |-> "", path |-> NoPath, paths |-> <<>>, entries |-> <<>>]
Err(e) == [ok |-> FALSE, err |-> e, path |-> NoPath, paths |-> <<>>, entries |-> <<>>]

ErrEmptyName == "Name cannot be empty"
ErrSeparator == "Name cannot contain path separators"
ErrInvalidChars == "Name contains invalid characters"
ErrNoAvailableName == "Unable to find available name"
ErrParentMissing == "Parent folder does not exist"
ErrSourceMissing == "Source path does not exist"
ErrInvalidSourceName == "Invalid source name"
ErrNoParent == "Cannot determine parent directory"
ErrPathMissing == "Path does not exist"
ErrDestMissing == "Destination folder does not exist"
ErrSelfContainment == "Cannot move a folder into itself"
ErrCreateFolder == "Failed to create folder"
ErrCreateFile == "Failed to create file"
ErrRename == "Failed to rename entry"
ErrMove == "Failed to move entry"
ErrCopyDir == "Failed to copy directory"
ErrCopyFile == "Failed to copy file"
ErrDeleteFolder == "Failed to delete folder"
ErrDeleteFile == "Failed to delete file"
ErrFolderMissing == "Folder does not exist"
ErrNotADirectory == "Path is not a directory"

IoErrors == {ErrCreateFolder, ErrCreateFile, ErrRename, ErrMove,
             ErrCopyDir, ErrCopyFile, ErrDeleteFolder, ErrDeleteFile}

----------------------------------------------------------------------------
(* The filesystem calls of std::fs and std::path the program makes *)

DirEntry == [is_dir |-> TRUE, content |-> ""]
FileEntry(c) == [is_dir |-> FALSE, content |-> c]

\* Path::exists
Exists(f, p) == p \in DOMAIN f

\* Path::is_dir
IsDir(f, p) == p \in DOMAIN f /\ f[p].is_dir

\* Path::is_file
IsFile(f, p) == p \in DOMAIN f /\ ~f[p].is_dir

Put(f, p, e) == [q \in DOMAIN f \cup {p} |-> IF q = p THEN e ELSE f[q]]

Under(f, p) == {q \in DOMAIN f : StartsWith(q, p)}

\* the entries directly inside dir
Children(f, dir) == {q \in DOMAIN f : Len(q) = Len(dir) + 1 /\ StartsWith(q, dir)}

IoOk(f) == [ok |-> TRUE, fs |-> f]
IoFail(f) == [ok |-> FALSE, fs |-> f]

\* fs::create_dir: fails when the path exists, when its parent is no
\* directory, or when the path is too long
FsCreateDir(f, p) ==
    IF Exists(f, p) \/ Len(p) = 0 \/ ~IsDir(f, Parent(p)) \/ Len(p) > MaxDepth
    THEN IoFail(f)
    ELSE IoOk(Put(f, p, DirEntry))

\* fs::create_dir_all: creates the missing ancestors too; an existing
\* directory is not an error
RECURSIVE FsCreateDirAll(_, _)
FsCreateDirAll(f, p) ==
    IF IsDir(f, p) THEN IoOk(f)
    ELSE IF Exists(f, p) \/ Len(p) = 0 \/ Len(p) > MaxDepth THEN IoFail(f)
    ELSE LET up == FsCreateDirAll(f, Parent(p))
         IN  IF up.ok THEN IoOk(Put(up.fs, p, DirEntry)) ELSE up

\* fs::write: creates the file, or replaces the content of an existing file
FsWrite(f, p, c) ==
    IF Len(p) = 0 \/ IsDir(f, p) \/ ~IsDir(f, Parent(p))
       \/ (~Exists(f, p) /\ Len(p) > MaxDepth)
    THEN IoFail(f)
    ELSE IoOk(Put(f, p, FileEntry(c)))

\* fs::copy: copies the content of a file, replacing an existing file
FsCopy(f, from, to) ==
    IF ~IsFile(f, from) THEN IoFail(f) ELSE FsWrite(f, to, f[from].content)

\* fs::rename (rename(2)): moves the entry and everything under it. An
\* existing target is replaced when it is a file and the source is a file,
\* or when it is an empty directory and the source is a directory.
FsRename(f, from, to) ==
    IF \/ ~Exists(f, from) \/ Len(from) = 0 \/ Len(to) = 0
       \/ ~IsDir(f, Parent(to))
       \/ (from /= to /\ StartsWith(to, from))
       \/ (~Exists(f, to) /\ Len(to) > MaxDepth)
       \/ (Exists(f, to) /\ f[to].is_dir /= f[from].is_dir)
       \/ (IsDir(f, to) /\ from /= to /\ Children(f, to) /= {})
    THEN IoFail(f)
    ELSE IF from = to THEN IoOk(f)
    ELSE LET moved == Under(f, from)
             kept == (DOMAIN f \ moved) \ {to}
             dest(q) == to \o SubSeq(q, Len(from) + 1, Len(q))
             back(q) == from \o SubSeq(q, Len(to) + 1, Len(q))
         IN  IoOk([q \in kept \cup {dest(m) : m \in moved} |->
                     IF q \in kept THEN f[q] ELSE f[back(q)]])

\* fs::remove_dir_all
FsRemoveDirAll(f, p) ==
    IF ~IsDir(f, p) \/ Len(p) = 0 THEN IoFail(f)
    ELSE IoOk([q \in DOMAIN f \ Under(f, p) |-> f[q]])

\* fs::remove_file
FsRemoveFile(f, p) ==
    IF ~IsFile(f, p) THEN IoFail(f)
    ELSE IoOk([q \in DOMAIN f \ {p} |-> f[q]])

\* the characters of names, in byte order
Alphabet == <<" ", "\"", "*", ".", "/",
              "0", "1", "2", "3", "4", "5", "6", "7", "8", "9",
              ":", "<", ">", "?", "\\",
              "a", "b", "c", "d", "e", "f", "g", "h", "i", "j", "k", "l", "m",
              "n", "o", "p", "q", "r", "s", "t", "u", "v", "w", "x", "y", "z", "|">>

CharCode(c) == CHOOSE i \in 1..Len(Alphabet) : Alphabet[i] = c

\* the byte order of two names
RECURSIVE NameLess(_, _)
NameLess(a, b) ==
    IF Len(a) = 0 THEN Len(b) > 0
    ELSE IF Len(b) = 0 THEN FALSE
    ELSE IF Head(a) = Head(b) THEN NameLess(Tail(a), Tail(b))
    ELSE CharCode(Head(a)) < CharCode(Head(b))

\* The orders in which the OS may enumerate a directory (the order is
\* unspecified): the model takes the names ascending or descending.
Orders == {"asc", "desc"}

RECURSIVE InOrder(_, _)
InOrder(names, ord) ==
    IF names = {} THEN <<>>
    ELSE LET first == CHOOSE n \in names :
                         \A m \in names \ {n} :
                            IF ord = "asc" THEN NameLess(n, m) ELSE NameLess(m, n)
         IN  <<first>> \o InOrder(names \ {first}, ord)

\* fs::read_dir: the names of the entries of dir, in the order ord
ReadDir(f, dir, ord) == InOrder({FileName(q) : q \in Children(f, dir)}, ord)

----------------------------------------------------------------------------
(* NameGuard and UniquePathResolver *)

InvalidChars == {"<", ">", ":", "\"", "|", "?", "*"}

Contains(name, chars) == \E i \in 1..Len(name) : name[i] \in chars

ensure_valid_name(name) ==
    IF Len(name) = 0 THEN Err(ErrEmptyName)
    ELSE IF Contains(name, {"/", "\\"}) THEN Err(ErrSeparator)
    ELSE IF Contains(name, InvalidChars) THEN Err(ErrInvalidChars)
    ELSE OkUnit

NoExt(name) == [stem |-> name, has_ext |-> FALSE, ext |-> <<>>]

\* mutant: a name is split at its last '.' even when that is its first character
split_name_and_extension_at_zero(name) ==
    LET idx == RFindDot(name)
    IN  IF idx = 0 THEN NoExt(name)
        ELSE [stem |-> SubSeq(name, 1, idx - 1),
              has_ext |-> TRUE,
              ext |-> SubSeq(name, idx + 1, Len(name))]

split_name_and_extension(name) ==
    LET idx == RFindDot(name)
    IN  IF idx = 0 THEN NoExt(name)
        ELSE IF idx = 1 THEN NoExt(name)
        ELSE [stem |-> SubSeq(name, 1, idx - 1),
              has_ext |-> TRUE,
              ext |-> SubSeq(name, idx + 1, Len(name))]

MAX_ATTEMPTS == 500

\* the (base_stem, base_ext) of resolve_unique_path
base_of(desired_name, is_dir) ==
    IF is_dir THEN NoExt(desired_name) ELSE split_name_and_extension(desired_name)

\* the candidate_name of one turn of the loop of resolve_unique_path
candidate_name(desired_name, is_dir, counter) ==
    LET base == base_of(desired_name, is_dir)
    IN  IF counter = 0 THEN desired_name
        ELSE IF base.has_ext
             THEN base.stem \o <<" ">> \o FormatCounter(counter) \o <<".">> \o base.ext
             ELSE base.stem \o <<" ">> \o FormatCounter(counter)

\* the loop of resolve_unique_path over the counters given: the candidate of
\* the first counter whose path does not exist, the error when there is none
resolve_in(f, parent, desired_name, is_dir, counters) ==
    LET candidate_path(c) == Join(parent, candidate_name(desired_name, is_dir, c))
        free(c) == ~Exists(f, candidate_path(c))
    IN  IF \E c \in counters : free(c)
        THEN Ok(candidate_path(CHOOSE c \in counters :
                                  free(c) /\ \A b \in counters : b < c => ~free(b)))
        ELSE Err(ErrNoAvailableName)

\* mutant: the loop starts at the first numbered candidate
resolve_unique_path_from_one(f, parent, desired_name, is_dir) ==
    resolve_in(f, parent, desired_name, is_dir, 1..MAX_ATTEMPTS)

\* mutant: the loop is 0..MAX_ATTEMPTS, its end excluded
resolve_unique_path_exclusive(f, parent, desired_name, is_dir) ==
    resolve_in(f, parent, desired_name, is_dir, 0..(MAX_ATTEMPTS - 1))

\* mutant: the desired name is taken without looking whether it exists
resolve_unique_path_unchecked(f, parent, desired_name, is_dir) ==
    Ok(Join(parent, desired_name))

resolve_unique_path(f, parent, desired_name, is_dir) ==
    resolve_in(f, parent, desired_name, is_dir, 0..MAX_ATTEMPTS)

----------------------------------------------------------------------------
(* EntryMutator.  Each command is its checks (everything up to the resolved
   target) followed by its write; Done is an early return, Go the target the
   write is made to. *)

Done(r) == [done |-> TRUE, ret |-> r, target |-> NoPath]
Go(t) == [done |-> FALSE, ret |-> OkUnit, target |-> t]

Returned(f, r) == [fs |-> f, ret |-> r]

\* mutant: the parent is checked before the name
create_folder_checks_parent_first(f, parent, folder_name) ==
    IF ~Exists(f, parent) \/ ~IsDir(f, parent) THEN Done(Err(ErrParentMissing))
    ELSE IF ~ensure_valid_name(folder_name).ok THEN Done(ensure_valid_name(folder_name))
    ELSE LET r == resolve_unique_path(f, parent, folder_name, TRUE)
         IN  IF ~r.ok THEN Done(r) ELSE Go(r.path)

\* create_folder up to the resolved target
create_folder_checks(f, parent, folder_name) ==
    IF ~ensure_valid_name(folder_name).ok THEN Done(ensure_valid_name(folder_name))
    ELSE IF ~Exists(f, parent) \/ ~IsDir(f, parent) THEN Done(Err(ErrParentMissing))
    ELSE LET r == resolve_unique_path(f, parent, folder_name, TRUE)
         IN  IF ~r.ok THEN Done(r) ELSE Go(r.path)

\* fs::create_dir(&target) and the return of create_folder
create_folder_write(f, target) ==
    LET w == FsCreateDir(f, target)
    IN  IF w.ok THEN Returned(w.fs, Ok(target)) ELSE Returned(w.fs, Err(ErrCreateFolder))

create_folder(f, parent, folder_name) ==
    LET c == create_folder_checks(f, parent, folder_name)
    IN  IF c.done THEN Returned(f, c.ret) ELSE create_folder_write(f, c.target)

\* create_markdown_file up to the resolved target
create_markdown_file_checks(f, parent, file_name) ==
    IF ~ensure_valid_name(file_name).ok THEN Done(ensure_valid_name(file_name))
    ELSE IF ~Exists(f, parent) \/ ~IsDir(f, parent) THEN Done(Err(ErrParentMissing))
    ELSE LET r == resolve_unique_path(f, parent, file_name, FALSE)
         IN  IF ~r.ok THEN Done(r) ELSE Go(r.path)

\* fs::write(&target, content) and the return of create_markdown_file
create_markdown_file_write(f, target, content) ==
    LET w == FsWrite(f, target, content)
    IN  IF w.ok THEN Returned(w.fs, Ok(target)) ELSE Returned(w.fs, Err(ErrCreateFile))

create_markdown_file(f, parent, file_name, content) ==
    LET c == create_markdown_file_checks(f, parent, file_name)
    IN  IF c.done THEN Returned(f, c.ret)
        ELSE create_markdown_file_write(f, c.target, content)

\* mutant: no short-circuit when the name does not change
rename_entry_checks_no_short_circuit(f, source, new_name) ==
    IF ~ensure_valid_name(new_name).ok THEN Done(ensure_valid_name(new_name))
    ELSE IF ~Exists(f, source) THEN Done(Err(ErrSourceMissing))
    ELSE IF Len(source) = 0 THEN Done(Err(ErrInvalidSourceName))
    ELSE LET r == resolve_unique_path(f, Parent(source), new_name, IsDir(f, source))
         IN  IF ~r.ok THEN Done(r)
             ELSE IF r.path = source THEN Done(Ok(source))
             ELSE Go(r.path)

\* rename_entry up to the resolved target
rename_entry_checks(f, source, new_name) ==
    IF ~ensure_valid_name(new_name).ok THEN Done(ensure_valid_name(new_name))
    ELSE IF ~Exists(f, source) THEN Done(Err(ErrSourceMissing))
    ELSE IF Len(source) = 0 THEN Done(Err(ErrInvalidSourceName))
    ELSE IF FileName(source) = new_name THEN Done(Ok(source))
    ELSE LET r == resolve_unique_path(f, Parent(source), new_name, IsDir(f, source))
         IN  IF ~r.ok THEN Done(r)
             ELSE IF r.path = source THEN Done(Ok(source))
             ELSE Go(r.path)

\* fs::rename(&source, &target) and the return of rename_entry
rename_entry_write(f, source, target) ==
    LET w == FsRename(f, source, target)
    IN  IF w.ok THEN Returned(w.fs, Ok(target)) ELSE Returned(w.fs, Err(ErrRename))

rename_entry(f, source, new_name) ==
    LET c == rename_entry_checks(f, source, new_name)
    IN  IF c.done THEN Returned(f, c.ret) ELSE rename_entry_write(f, source, c.target)

delete_entry(f, path) ==
    IF ~Exists(f, path) THEN Returned(f, Err(ErrPathMissing))
    ELSE IF IsDir(f, path)
         THEN LET w == FsRemoveDirAll(f, path)
              IN  IF w.ok THEN Returned(w.fs, OkUnit)
                  ELSE Returned(w.fs, Err(ErrDeleteFolder))
         ELSE LET w == FsRemoveFile(f, path)
              IN  IF w.ok THEN Returned(w.fs, OkUnit)
                  ELSE Returned(w.fs, Err(ErrDeleteFile))

\* mutant: the arguments of starts_with are swapped in both containment checks
move_entry_checks_swapped_prefix(f, source, dest_folder) ==
    IF ~Exists(f, source) THEN Done(Err(ErrSourceMissing))
    ELSE IF ~Exists(f, dest_folder) \/ ~IsDir(f, dest_folder) THEN Done(Err(ErrDestMissing))
    ELSE IF Len(source) > 0 /\ Parent(source) = dest_folder THEN Done(Ok(source))
    ELSE IF IsDir(f, source) /\ StartsWith(source, dest_folder)
         THEN Done(Err(ErrSelfContainment))
    ELSE IF Len(source) = 0 THEN Done(Err(ErrInvalidSourceName))
    ELSE LET r == resolve_unique_path(f, dest_folder, FileName(source), IsDir(f, source))
         IN  IF ~r.ok THEN Done(r)
             ELSE IF IsDir(f, source) /\ StartsWith(source, r.path)
                  THEN Done(Err(ErrSelfContainment))
             ELSE Go(r.path)

\* mutant: no short-circuit when the destination is the current parent
move_entry_checks_no_short_circuit(f, source, dest_folder) ==
    IF ~Exists(f, source) THEN Done(Err(ErrSourceMissing))
    ELSE IF ~Exists(f, dest_folder) \/ ~IsDir(f, dest_folder) THEN Done(Err(ErrDestMissing))
    ELSE IF IsDir(f, source) /\ StartsWith(dest_folder, source)
         THEN Done(Err(ErrSelfContainment))
    ELSE IF Len(source) = 0 THEN Done(Err(ErrInvalidSourceName))
    ELSE LET r == resolve_unique_path(f, dest_folder, FileName(source), IsDir(f, source))
         IN  IF ~r.ok THEN Done(r)
             ELSE IF IsDir(f, source) /\ StartsWith(r.path, source)
                  THEN Done(Err(ErrSelfContainment))
             ELSE Go(r.path)

\* move_entry up to the resolved target
move_entry_checks(f, source, dest_folder) ==
    IF ~Exists(f, source) THEN Done(Err(ErrSourceMissing))
    ELSE IF ~Exists(f, dest_folder) \/ ~IsDir(f, dest_folder) THEN Done(Err(ErrDestMissing))
    ELSE IF Len(source) > 0 /\ Parent(source) = dest_folder THEN Done(Ok(source))
    ELSE IF IsDir(f, source) /\ StartsWith(dest_folder, source)
         THEN Done(Err(ErrSelfContainment))
    ELSE IF Len(source) = 0 THEN Done(Err(ErrInvalidSourceName))
    ELSE LET r == resolve_unique_path(f, dest_folder, FileName(source), IsDir(f, source))
         IN  IF ~r.ok THEN Done(r)
             ELSE IF IsDir(f, source) /\ StartsWith(r.path, source)
                  THEN Done(Err(ErrSelfContainment))
             ELSE Go(r.path)

\* fs::rename(&source, &target) and the return of move_entry
move_entry_write(f, source, target) ==
    LET w == FsRename(f, source, target)
    IN  IF w.ok THEN Returned(w.fs, Ok(target)) ELSE Returned(w.fs, Err(ErrMove))

move_entry(f, source, dest_folder) ==
    LET c == move_entry_checks(f, source, dest_folder)
    IN  IF c.done THEN Returned(f, c.ret) ELSE move_entry_write(f, source, c.target)

----------------------------------------------------------------------------
(* TreeOps *)

RECURSIVE copy_dir_all(_, _, _, _)
RECURSIVE copy_dir_entries(_, _, _, _, _)

\* the loop of copy_dir_all over the entries read_dir gave
copy_dir_entries(f, src, dst, names, ord) ==
    IF names = <<>> THEN IoOk(f)
    ELSE LET src_path == Join(src, Head(names))
             dst_path == Join(dst, Head(names))
             r == IF IsDir(f, src_path)
                  THEN copy_dir_all(f, src_path, dst_path, ord)
                  ELSE FsCopy(f, src_path, dst_path)
         IN  IF ~r.ok THEN r
             ELSE copy_dir_entries(r.fs, src, dst, Tail(names), ord)

\* mutant: the directory is created and its entries are not copied
copy_dir_all_shallow(f, src, dst, ord) ==
    LET made == FsCreateDirAll(f, dst)
    IN  IF ~made.ok THEN made
        ELSE IF ~IsDir(made.fs, src) THEN IoFail(made.fs)
        ELSE IoOk(made.fs)

copy_dir_all(f, src, dst, ord) ==
    LET made == FsCreateDirAll(f, dst)
    IN  IF ~made.ok THEN made
        ELSE IF ~IsDir(made.fs, src) THEN IoFail(made.fs)
        ELSE copy_dir_entries(made.fs, src, dst, ReadDir(made.fs, src, ord), ord)

\* mutant: a source that does not exist fails the batch
copy_source_checks_missing_fails(f, source, dest_folder) ==
    IF ~Exists(f, source) THEN Done(Err(ErrSourceMissing))
    ELSE IF Len(source) = 0 THEN Done(Err(ErrInvalidSourceName))
    ELSE LET r == resolve_unique_path(f, dest_folder, FileName(source), IsDir(f, source))
         IN  IF ~r.ok THEN Done(r) ELSE Go(r.path)

\* one turn of the loop of copy_entries_to_folder, up to the resolved target:
\* Done with ok when the source is skipped
copy_source_checks(f, source, dest_folder) ==
    IF ~Exists(f, source) THEN Done(OkUnit)
    ELSE IF Len(source) = 0 THEN Done(Err(ErrInvalidSourceName))
    ELSE LET r == resolve_unique_path(f, dest_folder, FileName(source), IsDir(f, source))
         IN  IF ~r.ok THEN Done(r) ELSE Go(r.path)

\* the copy of one source to its target; is_dir is what source.is_dir() gave
\* before the target was resolved
copy_source_write(f, source, target, is_dir, ord) ==
    IF is_dir
    THEN LET w == copy_dir_all(f, source, target, ord)
         IN  IF w.ok THEN Returned(w.fs, Ok(target)) ELSE Returned(w.fs, Err(ErrCopyDir))
    ELSE LET w == FsCopy(f, source, target)
         IN  IF w.ok THEN Returned(w.fs, Ok(target)) ELSE Returned(w.fs, Err(ErrCopyFile))

\* the loop of copy_entries_to_folder
RECURSIVE copy_loop(_, _, _, _, _)
copy_loop(f, source_paths, dest_folder, new_paths, ord) ==
    IF source_paths = <<>> THEN Returned(f, OkList(new_paths))
    ELSE LET source == Head(source_paths)
             c == copy_source_checks(f, source, dest_folder)
         IN  IF c.done /\ c.ret.ok
             THEN copy_loop(f, Tail(source_paths), dest_folder, new_paths, ord)
             ELSE IF c.done THEN Returned(f, c.ret)
             ELSE LET w == copy_source_write(f, source, c.target, IsDir(f, source), ord)
                  IN  IF ~w.ret.ok THEN w
                      ELSE copy_loop(w.fs, Tail(source_paths), dest_folder,
                                     Append(new_paths, c.target), ord)

copy_entries_to_folder(f, source_paths, dest_folder, ord) ==
    IF ~Exists(f, dest_folder) \/ ~IsDir(f, dest_folder)
    THEN Returned(f, Err(ErrDestMissing))
    ELSE copy_loop(f, source_paths, dest_folder, <<>>, ord)

MarkdownFile(name, path, is_dir) == [name |-> name, path |-> path, is_dir |-> is_dir]

\* Path::extension: the part after the last '.', none when the name has no
\* '.' or its only '.' is the first character
PathExtension(name) ==
    LET idx == RFindDot(name)
    IN  IF idx <= 1 THEN [some |-> FALSE, ext |-> <<>>]
        ELSE [some |-> TRUE, ext |-> SubSeq(name, idx + 1, Len(name))]

ExtMd == <<"m", "d">>
ExtMarkdown == <<"m", "a", "r", "k", "d", "o", "w", "n">>
ExtTxt == <<"t", "x", "t">>

RECURSIVE scan_directory(_, _, _)
RECURSIVE scan_entries(_, _, _, _)

\* mutant: entries whose name starts with '.' are not skipped
RECURSIVE scan_entries_with_hidden(_, _, _, _)
scan_entries_with_hidden(f, dir, names, ord) ==
    IF names = <<>> THEN <<>>
    ELSE LET file_name == Head(names)
             path == Join(dir, file_name)
             rest == scan_entries_with_hidden(f, dir, Tail(names), ord)
         IN  IF IsDir(f, path)
             THEN <<MarkdownFile(file_name, path, TRUE)>>
                  \o scan_entries_with_hidden(f, path, ReadDir(f, path, ord), ord) \o rest
             ELSE IF IsFile(f, path)
                     /\ PathExtension(file_name).some
                     /\ PathExtension(file_name).ext \in {ExtMd, ExtMarkdown, ExtTxt}
                  THEN <<MarkdownFile(file_name, path, FALSE)>> \o rest
             ELSE rest

\* the loop of scan_directory over the entries read_dir gave
scan_entries(f, dir, names, ord) ==
    IF names = <<>> THEN <<>>
    ELSE LET file_name == Head(names)
             path == Join(dir, file_name)
             rest == scan_entries(f, dir, Tail(names), ord)
         IN  IF NameStartsWithDot(file_name) THEN rest
             ELSE IF IsDir(f, path)
                  THEN <<MarkdownFile(file_name, path, TRUE)>>
                       \o scan_directory(f, path, ord) \o rest
             ELSE IF IsFile(f, path)
                     /\ PathExtension(file_name).some
                     /\ PathExtension(file_name).ext \in {ExtMd, ExtMarkdown, ExtTxt}
                  THEN <<MarkdownFile(file_name, path, FALSE)>> \o rest
             ELSE rest

scan_directory(f, dir, ord) == scan_entries(f, dir, ReadDir(f, dir, ord), ord)

scan_folder_for_markdown(f, folder_path, ord) ==
    IF ~Exists(f, folder_path) THEN Err(ErrFolderMissing)
    ELSE IF ~IsDir(f, folder_path) THEN Err(ErrNotADirectory)
    ELSE OkEntries(scan_directory(f, folder_path, ord))

----------------------------------------------------------------------------
(* The inputs the model gives the commands *)

NameA == <<"a">>
NameNote == <<"n", ".", "m", "d">>

ValidNames == {NameA, NameNote}
InvalidNames == {<<>>, <<"a", "/", "b">>, <<"?">>}
InputNames == ValidNames \cup InvalidNames

Contents == {"", "x"}

\* a path no command of the model creates
MissingPath == << <<"m">> >>

InputPaths(f) == DOMAIN f \cup {MissingPath}

SourceLists(f) ==
    UNION {[1..n -> InputPaths(f)] : n \in 0..MaxSources}

Threads == {1, 2}

\* a thread that is in no call
Idle == [phase |-> "idle", op |-> "none", src |-> NoPath, dst |-> NoPath,
         content |-> "", target |-> NoPath, is_dir |-> FALSE, srcs |-> <<>>,
         new_paths |-> <<>>, ret |-> OkUnit, clash |-> FALSE]

Call(op, src, dst, name, content, srcs, ord, ret, pre) ==
    [op |-> op, src |-> src, dst |-> dst, name |-> name, content |-> content,
     srcs |-> srcs, ord |-> ord, is_dir |-> FALSE, ret |-> ret, pre |-> pre]

\* the limits a specification keeps its filesystems in
Limits(entries, depth, name_len) ==
    [entries |-> entries, depth |-> depth, name_len |-> name_len]

InBounds(f, lim) ==
    /\ Cardinality(DOMAIN f) <= lim.entries
    /\ {p \in DOMAIN f : Len(p) > lim.depth} = {}
    /\ {p \in DOMAIN f \ {Root} : Len(FileName(p)) > lim.name_len} = {}

SpecLimits == Limits(MaxEntries, MaxDepth, MaxNameLen)

\* a name NameGuard rejects and the OS accepts: an entry another program made
NameForeign == <<"?">>

\* The filesystems a run starts from: the empty root, or a root that already
\* holds a file another program created.
InitialFilesystems ==
    {[p \in {Root} |-> DirEntry],
     [p \in {Root, <<NameForeign>>} |-> IF p = Root THEN DirEntry ELSE FileEntry("x")]}

----------------------------------------------------------------------------
(* The folder watcher: WatcherState, the debouncers and their callback *)

\* Option::None in WatcherState._watcher; a debouncer is named by 1, 2, ...
None == 0

ErrInvalidFolderPath == "Invalid folder path"
ErrCreateWatcher == "Failed to create watcher"
ErrWatchFolder == "Failed to watch folder"

\* A debouncer is "none" before new_debouncer makes it, "created" until its
\* OS watch is installed, "watching" while the watch is installed, "stopped"
\* once it is dropped (the watch is removed; its thread may still deliver the
\* batch it holds) and "gone" when its thread has ended.
NoDebouncer == [state |-> "none", path |-> NoPath, events |-> <<>>]

\* a debouncer whose thread has ended
Gone == [state |-> "gone", path |-> NoPath, events |-> <<>>]

\* a thread that is in no watcher command
NoWatcherCall == [phase |-> "idle", op |-> "none", session |-> None, ret |-> OkUnit]

\* nothing emitted waits for the front end
NoDelivery == [session |-> None, batch |-> <<>>, events |-> <<>>]

\* main: .manage(WatcherState { _watcher: Arc::new(Mutex::new(None)) })
WatcherInit ==
    /\ watcher_state = None
    /\ debouncers = [id \in 1..MaxSessions |-> NoDebouncer]
    /\ calls = [t \in Threads |-> NoWatcherCall]
    /\ emitted = NoDelivery
    /\ stop_returned = FALSE

FileChangeEvent(event_type, path) == [event_type |-> event_type, path |-> path]

\* the kinds of notify::EventKind
EventKinds == {"Any", "Access", "Create", "Modify", "Remove", "Other"}

\* match event.kind
event_type_of(kind) ==
    CASE kind = "Create" -> "create"
      [] kind = "Modify" -> "modify"
      [] kind = "Remove" -> "remove"
      [] OTHER -> "other"

\* mutant: paths whose name starts with '.' are not skipped
RECURSIVE event_handler_paths_with_hidden(_, _, _)
event_handler_paths_with_hidden(f, kind, paths) ==
    IF paths = <<>> THEN <<>>
    ELSE LET path == Head(paths)
             rest == event_handler_paths_with_hidden(f, kind, Tail(paths))
         IN  IF Len(path) = 0 THEN rest
             ELSE IF \/ IsDir(f, path)
                     \/ /\ PathExtension(FileName(path)).some
                        /\ PathExtension(FileName(path)).ext \in {ExtMd, ExtMarkdown, ExtTxt}
                  THEN <<FileChangeEvent(event_type_of(kind), path)>> \o rest
             ELSE rest

\* the callback given to new_debouncer: the loop over the paths of one event
RECURSIVE event_handler_paths(_, _, _)
event_handler_paths(f, kind, paths) ==
    IF paths = <<>> THEN <<>>
    ELSE LET path == Head(paths)
             rest == event_handler_paths(f, kind, Tail(paths))
         IN  IF Len(path) = 0 THEN rest
             ELSE IF NameStartsWithDot(FileName(path)) THEN rest
             ELSE IF \/ IsDir(f, path)
                     \/ /\ PathExtension(FileName(path)).some
                        /\ PathExtension(FileName(path)).ext \in {ExtMd, ExtMarkdown, ExtTxt}
                  THEN <<FileChangeEvent(event_type_of(kind), path)>> \o rest
             ELSE rest

\* the callback on Ok(events): the FileChangeEvents it emits, in order
RECURSIVE event_handler(_, _)
event_handler(f, events) ==
    IF events = <<>> THEN <<>>
    ELSE event_handler_paths(f, Head(events).kind, Head(events).paths)
         \o event_handler(f, Tail(events))

----------------------------------------------------------------------------
(* The initial state *)

\* no result is waiting for the caller
NoCall == Call("none", NoPath, NoPath, <<>>, "", <<>>, "asc", OkUnit, <<>>)

Init ==
    /\ fs \in InitialFilesystems
    /\ last = NoCall
    /\ pend = [t \in Threads |-> Idle]
    /\ WatcherInit

----------------------------------------------------------------------------
(* The commands, each called and run to its return.  The front end awaits
   the result of a command before it invokes the next one.  Each action takes
   the sets its inputs are drawn from and the limits of the specification. *)

CreateFolder(parents, names, lim) ==
    /\ last = NoCall
    /\ \E parent \in parents, name \in names :
        LET r == create_folder(fs, parent, name)
        IN  /\ InBounds(r.fs, lim)
            /\ fs' = r.fs
            /\ last' = Call("create_folder", NoPath, parent, name, "", <<>>, "asc", r.ret, fs)
            /\ UNCHANGED <<pend, wvars>>

CreateMarkdownFile(parents, names, lim) ==
    /\ last = NoCall
    /\ \E parent \in parents, name \in names, content \in Contents :
        LET r == create_markdown_file(fs, parent, name, content)
        IN  /\ InBounds(r.fs, lim)
            /\ fs' = r.fs
            /\ last' = Call("create_file", NoPath, parent, name, content, <<>>, "asc",
                            r.ret, fs)
            /\ UNCHANGED <<pend, wvars>>

RenameEntry(sources, names, lim) ==
    /\ last = NoCall
    /\ \E source \in sources, name \in names :
        LET r == rename_entry(fs, source, name)
        IN  /\ InBounds(r.fs, lim)
            /\ fs' = r.fs
            /\ last' = Call("rename", source, NoPath, name, "", <<>>, "asc", r.ret, fs)
            /\ UNCHANGED <<pend, wvars>>

DeleteEntry(targets) ==
    /\ last = NoCall
    /\ \E target \in targets :
        LET r == delete_entry(fs, target)
        IN  /\ fs' = r.fs
            /\ last' = Call("delete", target, NoPath, <<>>, "", <<>>, "asc", r.ret, fs)
            /\ UNCHANGED <<pend, wvars>>

MoveEntry(sources, dests, lim) ==
    /\ last = NoCall
    /\ \E source \in sources, dest \in dests :
        LET r == move_entry(fs, source, dest)
        IN  /\ InBounds(r.fs, lim)
            /\ fs' = r.fs
            /\ last' = Call("move", source, dest, <<>>, "", <<>>, "asc", r.ret, fs)
            /\ UNCHANGED <<pend, wvars>>

CopyEntriesToFolder(lists, dests, lim) ==
    /\ last = NoCall
    /\ \E sources \in lists, dest \in dests, ord \in Orders :
        LET r == copy_entries_to_folder(fs, sources, dest, ord)
        IN  /\ InBounds(r.fs, lim)
            /\ fs' = r.fs
            /\ last' = Call("copy_many", NoPath, dest, <<>>, "", sources, ord, r.ret, fs)
            /\ UNCHANGED <<pend, wvars>>

ScanFolderForMarkdown(folders) ==
    /\ last = NoCall
    /\ \E folder \in folders, ord \in Orders :
        /\ last' = Call("scan", folder, NoPath, <<>>, "", <<>>, ord,
                        scan_folder_for_markdown(fs, folder, ord), fs)
        /\ UNCHANGED <<fs, pend, wvars>>

\* the caller takes the result
TakeResult ==
    /\ last /= NoCall
    /\ last' = NoCall
    /\ UNCHANGED <<fs, pend, wvars>>

Next ==
    \/ CreateFolder(InputPaths(fs), InputNames, SpecLimits)
    \/ CreateMarkdownFile(InputPaths(fs), InputNames, SpecLimits)
    \/ RenameEntry(InputPaths(fs), InputNames, SpecLimits)
    \/ DeleteEntry(InputPaths(fs))
    \/ MoveEntry(InputPaths(fs), InputPaths(fs), SpecLimits)
    \/ CopyEntriesToFolder(SourceLists(fs), InputPaths(fs), SpecLimits)
    \/ ScanFolderForMarkdown(InputPaths(fs))
    \/ TakeResult

Spec == Init /\ [][Next]_vars

----------------------------------------------------------------------------
(* The resolver alone: resolve_unique_path applied to directories in which
   the desired name and its numbered candidates are present but for a few. *)

NameNoteMd == <<"n", "o", "t", "e", ".", "m", "d">>
NameGitignore == <<".", "g", "i", "t", "i", "g", "n", "o", "r", "e">>
NameV12 == <<"v", "1", ".", "2">>

ResolveNames == {NameNoteMd, NameGitignore, NameV12}

\* the position of the '.' a file name is split at: its last '.', unless
\* that is its first character; 0 when the name is not split
SplitPosition(name, is_dir) ==
    LET dots == {i \in 2..Len(name) : name[i] = "."}
    IN  IF is_dir \/ dots = {} THEN 0
        ELSE CHOOSE i \in dots : \A j \in dots : j <= i

Pow10(n) == IF n = 0 THEN 1 ELSE IF n = 1 THEN 10 ELSE IF n = 2 THEN 100 ELSE 1000

\* the decimal digits of k, 0 <= k < 10000
Decimal(k) ==
    LET n == IF k < 10 THEN 1 ELSE IF k < 100 THEN 2 ELSE IF k < 1000 THEN 3 ELSE 4
    IN  [i \in 1..n |-> DigitChar[((k \div Pow10(n - i)) % 10) + 1]]

\* the k-th candidate for a desired name: the name itself for k = 0, else
\* the name with " k" inserted before its extension
Numbered(name, is_dir, k) ==
    LET at == SplitPosition(name, is_dir)
    IN  IF k = 0 THEN name
        ELSE IF at = 0 THEN name \o <<" ">> \o Decimal(k)
        ELSE SubSeq(name, 1, at - 1) \o <<" ">> \o Decimal(k)
             \o SubSeq(name, at, Len(name))

\* the candidates a directory of InitResolve may lack
Holes == {0, 1, MAX_ATTEMPTS}

\* the root holding the candidates 0..MAX_ATTEMPTS for a name, but for holes
CrowdedRoot(name, is_dir, holes) ==
    LET names == {Numbered(name, is_dir, k) : k \in (0..MAX_ATTEMPTS) \ holes}
    IN  [p \in {Root} \cup {<<n>> : n \in names} |->
            IF p = Root \/ is_dir THEN DirEntry ELSE FileEntry("")]

ResolveLimits == Limits(MAX_ATTEMPTS + 2, 1, 16)

InitResolve ==
    /\ fs \in {CrowdedRoot(name, is_dir, holes) :
                 name \in ResolveNames, is_dir \in BOOLEAN, holes \in SUBSET Holes}
    /\ last = NoCall
    /\ pend = [t \in Threads |-> Idle]
    /\ WatcherInit

\* resolve_unique_path, called on its own
ResolveUniquePath(parents, names) ==
    /\ last = NoCall
    /\ \E parent \in parents, name \in names, is_dir \in BOOLEAN :
        /\ last' = [Call("resolve", NoPath, parent, name, "", <<>>, "asc",
                         resolve_unique_path(fs, parent, name, is_dir), fs)
                       EXCEPT !.is_dir = is_dir]
        /\ UNCHANGED <<fs, pend, wvars>>

NextResolve ==
    \/ ResolveUniquePath({Root}, ResolveNames)
    \/ CreateFolder({Root}, ResolveNames, ResolveLimits)
    \/ TakeResult

SpecResolve == InitResolve /\ [][NextResolve]_vars

\* the commands that create or move entries
Mutators == {"create_folder", "create_file", "rename", "move", "copy_many"}

\* the k-th candidate of the last resolve call is present in its parent
Taken(k) ==
    Join(last.dst, Numbered(last.name, last.is_dir, k)) \in DOMAIN last.pre

\* C3: resolve returns the first candidate that does not exist, in the order
\* desired_name, "stem 1[.ext]", "stem 2[.ext]", ...: the desired name
\* unchanged when it is free, else the candidate with the smallest k in
\* 1..500 that is free.
C3_FirstFreeCandidate ==
    (last.op = "resolve" /\ last.ret.ok) =>
        \E k \in 0..MAX_ATTEMPTS :
            /\ last.ret.path = Join(last.dst, Numbered(last.name, last.is_dir, k))
            /\ ~Taken(k)
            /\ \A j \in 0..(k - 1) : Taken(j)

\* the desired name and candidate 1 were taken, and a later candidate returned
C3_Witness ==
    /\ last.op = "resolve"
    /\ last.ret.ok
    /\ Taken(0) /\ Taken(1)
    /\ last.ret.path = Join(last.dst, Numbered(last.name, last.is_dir, MAX_ATTEMPTS))

\* the last call ended with NoAvailableName
NoAvailableName == last.ret = Err(ErrNoAvailableName)

\* C4: resolve fails with NoAvailableName exactly when the desired name and
\* every numbered candidate 1..500 exist in the parent, and a command that
\* fails so leaves the filesystem unchanged.
C4_NoAvailableName ==
    /\ last.op = "resolve" =>
          /\ NoAvailableName <=> \A k \in 0..MAX_ATTEMPTS : Taken(k)
          /\ last.ret.ok \/ NoAvailableName
          /\ fs = last.pre
    /\ (last.op \in Mutators /\ NoAvailableName) => fs = last.pre

\* resolve failed in a directory holding all 501 candidates
C4_Witness ==
    /\ last.op = "resolve"
    /\ NoAvailableName
    /\ \A k \in 0..MAX_ATTEMPTS : Taken(k)

\* the name the last resolve call returned
Resolved == FileName(last.ret.path)

\* C5: a numbered candidate is the desired name with " k" inserted before
\* the extension: a file name is split at its last '.' ("note.md" ->
\* "note 1.md"), a file whose only '.' is its first character is not split
\* (".gitignore" -> ".gitignore 1"), a directory name is never split
\* ("v1.2" -> "v1.2 1").
C5_NumberedBeforeExtension ==
    (last.op = "resolve" /\ last.ret.ok /\ Exists(last.pre, Join(last.dst, last.name))) =>
        /\ \E k \in 1..MAX_ATTEMPTS : Resolved = Numbered(last.name, last.is_dir, k)
        /\ (last.name = NameNoteMd /\ ~last.is_dir /\ ~Taken(1))
              => Resolved = <<"n", "o", "t", "e", " ", "1", ".", "m", "d">>
        /\ (last.name = NameGitignore /\ ~last.is_dir /\ ~Taken(1))
              => Resolved = NameGitignore \o <<" ", "1">>
        /\ (last.name = NameV12 /\ last.is_dir /\ ~Taken(1))
              => Resolved = <<"v", "1", ".", "2", " ", "1">>
        /\ (last.name = NameV12 /\ ~last.is_dir /\ ~Taken(1))
              => Resolved = <<"v", "1", " ", "1", ".", "2">>

\* a dotfile that exists was resolved to its first numbered candidate
C5_Witness ==
    /\ last.op = "resolve"
    /\ last.name = NameGitignore
    /\ ~last.is_dir
    /\ Exists(last.pre, Join(last.dst, last.name))
    /\ Resolved = NameGitignore \o <<" ", "1">>

----------------------------------------------------------------------------
(* The scan alone: trees built by create_folder and create_markdown_file
   from hidden and visible names, with and without a note extension. *)

NameHidden == <<".", "h">>
NameOther == <<"n", ".", "x">>

ScanNames == {NameA, NameNote, NameHidden, NameOther}

ScanLimits == Limits(MaxEntries, MaxDepth, 2 * MaxNameLen)

NextScan ==
    \/ CreateFolder(DOMAIN fs, ScanNames, ScanLimits)
    \/ CreateMarkdownFile(DOMAIN fs, ScanNames, ScanLimits)
    \/ ScanFolderForMarkdown(InputPaths(fs))
    \/ TakeResult

SpecScan == Init /\ [][NextScan]_vars

\* the extension of a file name: what follows the '.' it is split at
HasNoteExtension(name) ==
    LET at == SplitPosition(name, FALSE)
    IN  /\ at > 0
        /\ SubSeq(name, at + 1, Len(name)) \in {ExtMd, ExtMarkdown, ExtTxt}

\* what C10 says of an entry the scan returned; `from` is the first
\* component of its path that must not start with '.'
ScanEntryOk(e, from) ==
    /\ StartsWith(e.path, last.src) /\ Len(e.path) > Len(last.src)
    /\ Exists(last.pre, e.path)
    /\ e.name = FileName(e.path)
    /\ \A j \in from..Len(e.path) : ~NameStartsWithDot(e.path[j])
    /\ e.is_dir = IsDir(last.pre, e.path)
    /\ ~e.is_dir => HasNoteExtension(e.name)

\* C10 as stated: scan_tree returns no entry whose name starts with '.', no
\* entry below a directory whose name starts with '.', and no file whose
\* extension is not md, markdown or txt; is_dir is true of the directories
\* and false of the files.
C10_ScanFilters ==
    (last.op = "scan" /\ last.ret.ok) =>
        \A i \in 1..Len(last.ret.entries) : ScanEntryOk(last.ret.entries[i], 1)

\* C10, amended: the same, the directories whose name must not start with
\* '.' being those below the scanned root; the root itself and the
\* directories above it may be hidden.
C10_ScanFiltersBelowRoot ==
    (last.op = "scan" /\ last.ret.ok) =>
        \A i \in 1..Len(last.ret.entries) :
            ScanEntryOk(last.ret.entries[i], Len(last.src) + 1)

\* a scan returned an entry and left out a note below a hidden directory
C10_Witness ==
    /\ last.op = "scan"
    /\ Len(last.ret.entries) > 0
    /\ \E p \in DOMAIN last.pre :
          /\ StartsWith(p, last.src)
          /\ Len(p) > Len(last.src) + 1
          /\ NameStartsWithDot(p[Len(last.src) + 1])
          /\ IsFile(last.pre, p)
          /\ HasNoteExtension(FileName(p))
          /\ \A i \in 1..Len(last.ret.entries) : last.ret.entries[i].path /= p

----------------------------------------------------------------------------
(* Properties of the sequential commands *)

\* every entry of the filesystem before the call that is not in `moved` is
\* still there, with its type and content
Preserved(moved) ==
    \A p \in DOMAIN last.pre \ moved :
        p \in DOMAIN fs /\ fs[p] = last.pre[p]

\* the entries a rename or a move takes along: the source and, when it is a
\* directory, everything under it
Moved ==
    IF last.op \in {"rename", "move"} THEN Under(last.pre, last.src) ELSE {}

\* the call changed nothing and returned its source path
NoOpReturn ==
    /\ last.op \in {"rename", "move"}
    /\ last.ret = Ok(last.src)
    /\ fs = last.pre

\* C1: in a sequential execution of create_folder, create_file, rename, move
\* and copy_many no call overwrites an existing entry: every entry that
\* existed before the call, the renamed or moved source apart, is still at
\* its path with its type and content, and a returned path did not exist
\* before the call unless the call was a no-op returning its source path.
C1_NoOverwrite ==
    last.op \in Mutators =>
        /\ Preserved(Moved)
        /\ (last.ret.ok /\ last.op /= "copy_many" /\ ~NoOpReturn)
              => last.ret.path \notin DOMAIN last.pre
        /\ \A i \in 1..Len(last.ret.paths) : last.ret.paths[i] \notin DOMAIN last.pre

\* a file was created under a name that was taken, next to the entry holding it
C1_Witness ==
    /\ last.op = "create_file"
    /\ last.ret.ok
    /\ Join(last.dst, last.name) \in DOMAIN last.pre
    /\ last.ret.path /= Join(last.dst, last.name)
    /\ last.ret.path \in DOMAIN fs

\* the filesystem is a tree hanging from the root: every entry but the root
\* lies in a directory that exists
TreeWellFormed ==
    /\ IsDir(fs, Root)
    /\ \A p \in DOMAIN fs \ {Root} : IsDir(fs, Parent(p))

\* C6: a move of a directory into itself or into a directory nested under it
\* fails with SelfContainment and changes nothing, and the filesystem stays a
\* tree hanging from the root.
C6_MoveSelfContainment ==
    /\ TreeWellFormed
    /\ (/\ last.op = "move"
        /\ IsDir(last.pre, last.src)
        /\ IsDir(last.pre, last.dst)
        /\ StartsWith(last.dst, last.src))
       => (last.ret = Err(ErrSelfContainment) /\ fs = last.pre)

\* a directory below the root was moved into a directory nested under it
C6_Witness ==
    /\ last.op = "move"
    /\ Len(last.src) > 0
    /\ IsDir(last.pre, last.src)
    /\ IsDir(last.pre, last.dst)
    /\ StartsWith(last.dst, last.src)
    /\ last.dst /= last.src
    /\ last.ret = Err(ErrSelfContainment)

\* C7: copy_many with a source directory S and a destination that is S or
\* lies under S fails with SelfContainment and nests no copy of S inside S
\* (stated for the first source of the list that exists, so that nothing was
\* copied before it).
C7_CopySelfContainment ==
    (/\ last.op = "copy_many"
     /\ IsDir(last.pre, last.dst)
     /\ \E i \in 1..Len(last.srcs) :
           /\ Len(last.srcs[i]) > 0
           /\ IsDir(last.pre, last.srcs[i])
           /\ StartsWith(last.dst, last.srcs[i])
           /\ \A j \in 1..(i - 1) : ~Exists(last.pre, last.srcs[j]))
       => (last.ret = Err(ErrSelfContainment) /\ fs = last.pre)

\* C8 as stated: a rename of an existing entry to its own name returns the
\* source path and changes nothing.
C8_RenameSameName ==
    (/\ last.op = "rename"
     /\ Exists(last.pre, last.src)
     /\ Len(last.src) > 0
     /\ last.name = FileName(last.src))
       => (last.ret = Ok(last.src) /\ fs = last.pre)

\* C8, amended: a rename of an existing entry to its own name changes
\* nothing; it returns the source path when the name passes the name check,
\* and the error of the name check when it does not.
C8_RenameSameNameValid ==
    (/\ last.op = "rename"
     /\ Exists(last.pre, last.src)
     /\ Len(last.src) > 0
     /\ last.name = FileName(last.src))
       => /\ fs = last.pre
          /\ last.ret = IF ensure_valid_name(last.name).ok
                         THEN Ok(last.src)
                         ELSE ensure_valid_name(last.name)

\* an entry whose name is taken in its parent (by itself) was renamed to it
C8_Witness ==
    /\ last.op = "rename"
    /\ Exists(last.pre, last.src)
    /\ Len(last.src) > 0
    /\ last.name = FileName(last.src)
    /\ last.ret = Ok(last.src)

\* C9: a move of an existing entry to the directory it is in returns the
\* source path and changes nothing.
C9_MoveToParent ==
    (/\ last.op = "move"
     /\ Exists(last.pre, last.src)
     /\ Len(last.src) > 0
     /\ last.dst = Parent(last.src))
       => (last.ret = Ok(last.src) /\ fs = last.pre)

\* a directory and a file were each moved to the directory they are in
C9_Witness ==
    /\ last.op = "move"
    /\ Exists(last.pre, last.src)
    /\ Len(last.src) > 1
    /\ last.dst = Parent(last.src)
    /\ last.ret = Ok(last.src)

\* a name the name check rejects, as the claim words it
RejectedName(name) ==
    \/ name = <<>>
    \/ \E i \in 1..Len(name) :
          name[i] \in {"/", "\\", "<", ">", ":", "\"", "|", "?", "*"}

NameErrors == {ErrEmptyName, ErrSeparator, ErrInvalidChars}

\* the call failed and left the filesystem as it was
FailedUnchanged == ~last.ret.ok /\ fs = last.pre

\* C18: a mutating operation that fails one of its input checks leaves the
\* filesystem unchanged: a rejected name in create_folder, create_file and
\* rename, a parent or destination that is missing or not a directory in
\* create_folder, create_file, move and copy_many, a missing source in
\* rename, move and delete.  The name check comes first: a rejected name
\* gives the name error whatever the paths are.
C18_InputErrorsLeaveFilesystem ==
    /\ (last.op \in {"create_folder", "create_file", "rename"} /\ RejectedName(last.name))
          => (FailedUnchanged /\ last.ret.err \in NameErrors)
    /\ (last.op \in {"create_folder", "create_file", "move", "copy_many"}
           /\ ~IsDir(last.pre, last.dst))
          => FailedUnchanged
    /\ (last.op \in {"rename", "move", "delete"} /\ ~Exists(last.pre, last.src))
          => FailedUnchanged

\* create_folder was given a rejected name and a parent that does not exist
C18_Witness ==
    /\ last.op = "create_folder"
    /\ RejectedName(last.name)
    /\ ~Exists(last.pre, last.dst)
    /\ last.ret.err \in NameErrors
    /\ DOMAIN fs /= {Root}

----------------------------------------------------------------------------
(* Copies of trees: trees built by create_folder and create_markdown_file,
   then copied by copy_entries_to_folder, which may double them. *)

CopyNames == {NameA, NameNote, NameHidden}

CopyLimits == Limits(2 * MaxEntries, MaxDepth, 2 * MaxNameLen)

\* the commands find an empty directory
InitCopy ==
    /\ fs = (Root :> DirEntry)
    /\ last = NoCall
    /\ pend = [t \in Threads |-> Idle]
    /\ WatcherInit

\* a tree within the limits of the commands is copied up to the limits of
\* the copies
CopyTrees ==
    /\ InBounds(fs, SpecLimits)
    /\ CopyEntriesToFolder(SourceLists(fs), DOMAIN fs, CopyLimits)

NextCopy ==
    \/ CreateFolder(DOMAIN fs, CopyNames, SpecLimits)
    \/ CreateMarkdownFile(DOMAIN fs, CopyNames, SpecLimits)
    \/ CopyTrees
    \/ TakeResult

SpecCopy == InitCopy /\ [][NextCopy]_vars

\* the indices of the sources that existed when copy_many was called
ExistingSources ==
    LET existing(i) == Exists(last.pre, last.srcs[i])
    IN  SelectSeq([i \in 1..Len(last.srcs) |-> i], existing)

\* path p, which lies under `from`, rebased under `to`
Rebase(p, from, to) == to \o SubSeq(p, Len(from) + 1, Len(p))

\* what scan_tree gives for root in filesystem f, as relative paths and flags
RelativeScan(f, root) ==
    LET entries == scan_folder_for_markdown(f, root, "asc").entries
    IN  {[rel |-> Rebase(entries[i].path, root, <<>>), is_dir |-> entries[i].is_dir] :
            i \in 1..Len(entries)}

\* the copy B of the directory A mirrors A, and A is as it was
Mirrors(A, B) ==
    /\ B \notin DOMAIN last.pre
    /\ RelativeScan(fs, B) = RelativeScan(fs, A)
    /\ \A p \in Under(last.pre, A) :
          /\ Rebase(p, A, B) \in DOMAIN fs
          /\ fs[Rebase(p, A, B)] = last.pre[p]
    /\ Under(fs, B) = {Rebase(p, A, B) : p \in Under(last.pre, A)}
    /\ Under(fs, A) = Under(last.pre, A)
    /\ \A p \in Under(last.pre, A) : fs[p] = last.pre[p]

\* C11: after a successful copy_tree(A, B) into a B that did not exist,
\* scan_tree(B) and scan_tree(A) hold the same relative paths with the same
\* is_dir flags, every copied file has the content of its original, and the
\* tree under A is unchanged.
C11_CopyIsomorphic ==
    (last.op = "copy_many" /\ last.ret.ok /\ Len(last.ret.paths) = Len(ExistingSources)) =>
        \A k \in 1..Len(ExistingSources) :
            IsDir(last.pre, last.srcs[ExistingSources[k]]) =>
                Mirrors(last.srcs[ExistingSources[k]], last.ret.paths[k])

\* a directory holding a note and a hidden entry was copied
C11_Witness ==
    /\ last.op = "copy_many"
    /\ last.ret.ok
    /\ \E k \in 1..Len(last.ret.paths) :
          LET A == last.srcs[ExistingSources[k]]
          IN  /\ IsDir(last.pre, A)
              /\ \E p, q \in Under(last.pre, A) :
                    /\ IsFile(last.pre, p) /\ last.pre[p].content = "x"
                    /\ NameStartsWithDot(FileName(q))
              /\ RelativeScan(fs, last.ret.paths[k]) /= {}

\* C12: copy_many into an existing directory skips the sources that do not
\* exist without failing: when all copies succeed the returned list has one
\* destination path per existing source, in the order of the sources, and
\* nothing is created for a missing source.
C12_SkipsMissingSources ==
    (/\ last.op = "copy_many"
     /\ IsDir(last.pre, last.dst)
     /\ \A i \in 1..Len(last.srcs) :
           Exists(last.pre, last.srcs[i]) => Len(last.srcs[i]) > 0)
       => /\ last.ret.ok \/ last.ret.err \in IoErrors \cup {ErrNoAvailableName}
          /\ (\A i \in 1..Len(last.srcs) : ~Exists(last.pre, last.srcs[i]))
                => (last.ret = OkList(<<>>) /\ fs = last.pre)
          /\ last.ret.ok =>
                /\ Len(last.ret.paths) = Len(ExistingSources)
                /\ \A k \in 1..Len(ExistingSources) :
                      LET source == last.srcs[ExistingSources[k]]
                          target == last.ret.paths[k]
                          is_dir == IsDir(last.pre, source)
                      IN  /\ Len(target) > 0
                          /\ Parent(target) = last.dst
                          /\ target \notin DOMAIN last.pre
                          /\ IsDir(fs, target) = is_dir
                          /\ IsFile(fs, target) = ~is_dir
                          /\ \E c \in 0..CopyLimits.entries :
                                FileName(target) = Numbered(FileName(source), is_dir, c)
                /\ \A p \in DOMAIN fs \ DOMAIN last.pre :
                      \E k \in 1..Len(last.ret.paths) :
                          StartsWith(p, last.ret.paths[k])
                /\ \A i \in 1..Len(last.srcs) :
                      ~Exists(last.pre, last.srcs[i]) => ~Exists(fs, last.srcs[i])

\* a missing source was skipped and the source after it was copied
C12_Witness ==
    /\ last.op = "copy_many"
    /\ last.ret.ok
    /\ Len(last.srcs) > 1
    /\ ~Exists(last.pre, last.srcs[1])
    /\ Exists(last.pre, last.srcs[2])
    /\ Len(last.ret.paths) = 1
    /\ Exists(fs, last.ret.paths[1])

\* C20: copy_many creates only the mirror of what each source held when it
\* was called, also when dest_dir is a source directory or lies inside one:
\* no entry is created from a directory the call itself created.
C20_CopyTerminatesWithoutReentry ==
    last.op = "copy_many" =>
        \A p \in DOMAIN fs \ DOMAIN last.pre :
            /\ Len(p) > Len(last.dst)
            /\ StartsWith(p, last.dst)
            /\ \E i \in 1..Len(last.srcs) :
                  Rebase(p, SubSeq(p, 1, Len(last.dst) + 1), last.srcs[i])
                      \in DOMAIN last.pre

----------------------------------------------------------------------------
(* Two caller threads.  A command takes no lock: its checks, which end with
   resolve_unique_path, and its filesystem call are separate steps, and a
   step of the other thread may come between them. *)

ConcNames == {NameA}

ConcLimits == Limits(MaxEntries - 1, MaxDepth - 1, MaxNameLen - 1)

ConcLists(f) == UNION {[1..n -> DOMAIN f \ {Root}] : n \in 0..(MaxSources - 1)}

\* the thread after the checks of a command: returned, or holding its target
Started(op, src, content, c) ==
    IF c.done
    THEN [Idle EXCEPT !.phase = "returned", !.op = op, !.ret = c.ret]
    ELSE [Idle EXCEPT !.phase = "resolved", !.op = op, !.src = src,
                      !.content = content, !.target = c.target]

\* the thread after its filesystem call on filesystem f; clash records that
\* the target had appeared in f since the thread resolved it
Finished(p, f, r) ==
    [Idle EXCEPT !.phase = "returned", !.op = p.op, !.target = p.target,
                 !.ret = r, !.clash = p.clash \/ Exists(f, p.target)]

BeginCreateFolder(t, parents, names) ==
    /\ pend[t].phase = "idle"
    /\ \E parent \in parents, folder_name \in names :
          pend' = [pend EXCEPT ![t] =
                      Started("create_folder", NoPath, "",
                              create_folder_checks(fs, parent, folder_name))]
    /\ UNCHANGED <<fs, last, wvars>>

WriteCreateFolder(t, lim) ==
    /\ pend[t].phase = "resolved" /\ pend[t].op = "create_folder"
    /\ LET r == create_folder_write(fs, pend[t].target)
       IN  /\ InBounds(r.fs, lim)
           /\ fs' = r.fs
           /\ pend' = [pend EXCEPT ![t] = Finished(pend[t], fs, r.ret)]
    /\ UNCHANGED <<last, wvars>>

BeginCreateMarkdownFile(t, parents, names) ==
    /\ pend[t].phase = "idle"
    /\ \E parent \in parents, file_name \in names, content \in Contents :
          pend' = [pend EXCEPT ![t] =
                      Started("create_file", NoPath, content,
                              create_markdown_file_checks(fs, parent, file_name))]
    /\ UNCHANGED <<fs, last, wvars>>

WriteCreateMarkdownFile(t, lim) ==
    /\ pend[t].phase = "resolved" /\ pend[t].op = "create_file"
    /\ LET r == create_markdown_file_write(fs, pend[t].target, pend[t].content)
       IN  /\ InBounds(r.fs, lim)
           /\ fs' = r.fs
           /\ pend' = [pend EXCEPT ![t] = Finished(pend[t], fs, r.ret)]
    /\ UNCHANGED <<last, wvars>>

BeginRenameEntry(t, sources, names) ==
    /\ pend[t].phase = "idle"
    /\ \E source \in sources, new_name \in names :
          pend' = [pend EXCEPT ![t] =
                      Started("rename", source, "",
                              rename_entry_checks(fs, source, new_name))]
    /\ UNCHANGED <<fs, last, wvars>>

WriteRenameEntry(t, lim) ==
    /\ pend[t].phase = "resolved" /\ pend[t].op = "rename"
    /\ LET r == rename_entry_write(fs, pend[t].src, pend[t].target)
       IN  /\ InBounds(r.fs, lim)
           /\ fs' = r.fs
           /\ pend' = [pend EXCEPT ![t] = Finished(pend[t], fs, r.ret)]
    /\ UNCHANGED <<last, wvars>>

BeginMoveEntry(t, sources, dests) ==
    /\ pend[t].phase = "idle"
    /\ \E source \in sources, dest_folder \in dests :
          pend' = [pend EXCEPT ![t] =
                      Started("move", source, "",
                              move_entry_checks(fs, source, dest_folder))]
    /\ UNCHANGED <<fs, last, wvars>>

WriteMoveEntry(t, lim) ==
    /\ pend[t].phase = "resolved" /\ pend[t].op = "move"
    /\ LET r == move_entry_write(fs, pend[t].src, pend[t].target)
       IN  /\ InBounds(r.fs, lim)
           /\ fs' = r.fs
           /\ pend' = [pend EXCEPT ![t] = Finished(pend[t], fs, r.ret)]
    /\ UNCHANGED <<last, wvars>>

\* copy_entries_to_folder up to its loop
BeginCopyEntriesToFolder(t, lists, dests) ==
    /\ pend[t].phase = "idle"
    /\ \E source_paths \in lists, dest_folder \in dests :
          pend' = [pend EXCEPT ![t] =
                      IF ~Exists(fs, dest_folder) \/ ~IsDir(fs, dest_folder)
                      THEN [Idle EXCEPT !.phase = "returned", !.op = "copy",
                                        !.ret = Err(ErrDestMissing)]
                      ELSE [Idle EXCEPT !.phase = "copying", !.op = "copy",
                                        !.srcs = source_paths, !.dst = dest_folder]]
    /\ UNCHANGED <<fs, last, wvars>>

\* one turn of the loop up to the resolved target, or the end of the loop
CopyNextSource(t) ==
    /\ pend[t].phase = "copying"
    /\ LET p == pend[t]
           c == copy_source_checks(fs, Head(p.srcs), p.dst)
       IN  pend' = [pend EXCEPT ![t] =
                       IF p.srcs = <<>>
                       THEN [Idle EXCEPT !.phase = "returned", !.op = "copy",
                                         !.ret = OkList(p.new_paths),
                                         !.clash = p.clash]
                       ELSE IF c.done /\ c.ret.ok
                       THEN [p EXCEPT !.srcs = Tail(p.srcs)]
                       ELSE IF c.done
                       THEN [Idle EXCEPT !.phase = "returned", !.op = "copy",
                                         !.ret = c.ret, !.clash = p.clash]
                       ELSE [p EXCEPT !.phase = "resolved", !.src = Head(p.srcs),
                                      !.srcs = Tail(p.srcs), !.target = c.target,
                                      !.is_dir = IsDir(fs, Head(p.srcs))]]
    /\ UNCHANGED <<fs, last, wvars>>

\* the copy of the source to the resolved target
WriteCopySource(t, lim) ==
    /\ pend[t].phase = "resolved" /\ pend[t].op = "copy"
    /\ \E ord \in Orders :
       LET p == pend[t]
           r == copy_source_write(fs, p.src, p.target, p.is_dir, ord)
       IN  /\ InBounds(r.fs, lim)
           /\ fs' = r.fs
           /\ pend' = [pend EXCEPT ![t] =
                          IF ~r.ret.ok THEN Finished(p, fs, r.ret)
                          ELSE [p EXCEPT !.phase = "copying", !.src = NoPath,
                                         !.target = NoPath, !.is_dir = FALSE,
                                         !.new_paths = Append(p.new_paths, p.target),
                                         !.clash = p.clash \/ Exists(fs, p.target)]]
    /\ UNCHANGED <<last, wvars>>

\* the caller takes the result
Return(t) ==
    /\ pend[t].phase = "returned"
    /\ pend' = [pend EXCEPT ![t] = Idle]
    /\ UNCHANGED <<fs, last, wvars>>

NextConc ==
    \E t \in Threads :
        \/ BeginCreateFolder(t, DOMAIN fs, ConcNames)
        \/ WriteCreateFolder(t, ConcLimits)
        \/ BeginCreateMarkdownFile(t, DOMAIN fs, ConcNames)
        \/ WriteCreateMarkdownFile(t, ConcLimits)
        \/ BeginRenameEntry(t, DOMAIN fs, ConcNames)
        \/ WriteRenameEntry(t, ConcLimits)
        \/ BeginMoveEntry(t, DOMAIN fs, DOMAIN fs)
        \/ WriteMoveEntry(t, ConcLimits)
        \/ BeginCopyEntriesToFolder(t, ConcLists(fs), DOMAIN fs)
        \/ CopyNextSource(t)
        \/ WriteCopySource(t, ConcLimits)
        \/ Return(t)

SpecConc == Init /\ [][NextConc]_vars

\* C2: when the target a command resolved has been created by the other
\* thread before the command writes, the command fails with an I/O error:
\* it does not return success for that path and does not replace the entry.
C2_RaceFailsWithIoError ==
    \A t \in Threads :
        (pend[t].phase = "returned" /\ pend[t].clash) =>
            (~pend[t].ret.ok /\ pend[t].ret.err \in IoErrors)

----------------------------------------------------------------------------
(* The watcher commands.  watch_folder builds its debouncer and installs the
   OS watch before it locks WatcherState; the assignment under the lock drops
   the debouncer that was held.  The debouncer's thread delivers its batches
   to the callback on its own. *)

\* the result of a watcher command
WatcherReturned(op, r) ==
    [phase |-> "returned", op |-> op, session |-> None, ret |-> r]

\* drop of an Option<Debouncer>: the OS watch is removed, the thread told to stop
Drop(d, id) ==
    IF id = None THEN d ELSE [d EXCEPT ![id].state = "stopped"]

\* the debouncers that have not been created yet
Unused == {id \in 1..MaxSessions : debouncers[id].state = "none"}

\* watch_folder up to new_debouncer: the path check, then the debouncer is
\* created, or the OS refuses it
WatchFolderCreate(t, paths) ==
    /\ calls[t].phase = "idle"
    /\ \E folder_path \in paths, created \in BOOLEAN :
          IF ~Exists(fs, folder_path) \/ ~IsDir(fs, folder_path)
          THEN /\ calls' = [calls EXCEPT ![t] =
                               WatcherReturned("watch", Err(ErrInvalidFolderPath))]
               /\ UNCHANGED debouncers
          ELSE IF ~created
          THEN /\ calls' = [calls EXCEPT ![t] =
                               WatcherReturned("watch", Err(ErrCreateWatcher))]
               /\ UNCHANGED debouncers
          ELSE /\ Unused /= {}
               /\ LET id == CHOOSE i \in Unused : \A j \in Unused : i <= j
                  IN  /\ debouncers' = [debouncers EXCEPT ![id] =
                                           [state |-> "created", path |-> folder_path,
                                            events |-> <<>>]]
                      /\ calls' = [calls EXCEPT ![t] =
                                      [phase |-> "created", op |-> "watch",
                                       session |-> id, ret |-> OkUnit]]
    /\ UNCHANGED <<fs, last, pend, watcher_state, emitted, stop_returned>>

\* mutant: a watch that cannot be installed empties WatcherState
WatchFolderWatchClearing(t) ==
    /\ calls[t].phase = "created"
    /\ \E installed \in BOOLEAN :
          LET id == calls[t].session
          IN  IF installed /\ IsDir(fs, debouncers[id].path)
              THEN /\ debouncers' = [debouncers EXCEPT ![id].state = "watching"]
                   /\ calls' = [calls EXCEPT ![t].phase = "installed"]
                   /\ UNCHANGED watcher_state
              ELSE /\ debouncers' = Drop(Drop(debouncers, id), watcher_state)
                   /\ calls' = [calls EXCEPT ![t] =
                                   WatcherReturned("watch", Err(ErrWatchFolder))]
                   /\ watcher_state' = None
    /\ UNCHANGED <<fs, last, pend, emitted, stop_returned>>

\* debouncer.watcher().watch(&path, Recursive): the OS watch is installed, or
\* the call fails and its debouncer is dropped
WatchFolderWatch(t) ==
    /\ calls[t].phase = "created"
    /\ \E installed \in BOOLEAN :
          LET id == calls[t].session
          IN  IF installed /\ IsDir(fs, debouncers[id].path)
              THEN /\ debouncers' = [debouncers EXCEPT ![id].state = "watching"]
                   /\ calls' = [calls EXCEPT ![t].phase = "installed"]
              ELSE /\ debouncers' = Drop(debouncers, id)
                   /\ calls' = [calls EXCEPT ![t] =
                                   WatcherReturned("watch", Err(ErrWatchFolder))]
    /\ UNCHANGED <<fs, last, pend, watcher_state, emitted, stop_returned>>

\* mutant: the debouncer that was held is kept alive
WatchFolderStoreLeaking(t) ==
    /\ calls[t].phase = "installed"
    /\ watcher_state' = calls[t].session
    /\ calls' = [calls EXCEPT ![t] = WatcherReturned("watch", OkUnit)]
    /\ stop_returned' = FALSE
    /\ UNCHANGED <<fs, last, pend, debouncers, emitted>>

\* the lock, *watcher_guard = Some(debouncer), and the return
WatchFolderStore(t) ==
    /\ calls[t].phase = "installed"
    /\ watcher_state' = calls[t].session
    /\ debouncers' = Drop(debouncers, watcher_state)
    /\ calls' = [calls EXCEPT ![t] = WatcherReturned("watch", OkUnit)]
    /\ stop_returned' = FALSE
    /\ UNCHANGED <<fs, last, pend, emitted>>

\* mutant: WatcherState is emptied and the debouncer is not dropped
StopWatchingForgetting(t) ==
    /\ calls[t].phase = "idle"
    /\ watcher_state' = None
    /\ calls' = [calls EXCEPT ![t] = WatcherReturned("stop", OkUnit)]
    /\ stop_returned' = TRUE
    /\ UNCHANGED <<fs, last, pend, debouncers, emitted>>

\* mutant: stop_watching fails when no debouncer is held
StopWatchingFailingWhenIdle(t) ==
    /\ calls[t].phase = "idle"
    /\ watcher_state' = None
    /\ debouncers' = Drop(debouncers, watcher_state)
    /\ calls' = [calls EXCEPT ![t] =
                    WatcherReturned("stop", IF watcher_state = None
                                            THEN Err(ErrInvalidFolderPath)
                                            ELSE OkUnit)]
    /\ stop_returned' = TRUE
    /\ UNCHANGED <<fs, last, pend, emitted>>

\* stop_watching: the lock, *watcher_guard = None, and the return
StopWatching(t) ==
    /\ calls[t].phase = "idle"
    /\ watcher_state' = None
    /\ debouncers' = Drop(debouncers, watcher_state)
    /\ calls' = [calls EXCEPT ![t] = WatcherReturned("stop", OkUnit)]
    /\ stop_returned' = TRUE
    /\ UNCHANGED <<fs, last, pend, emitted>>

\* the front end takes the result of the watcher command
WatcherReturn(t) ==
    /\ calls[t].phase = "returned"
    /\ calls' = [calls EXCEPT ![t] = NoWatcherCall]
    /\ UNCHANGED <<fs, last, pend, watcher_state, debouncers, emitted, stop_returned>>

\* the debouncers whose OS watch covers one of the paths
Watching(paths) ==
    {id \in 1..MaxSessions :
        /\ debouncers[id].state = "watching"
        /\ \E i \in 1..Len(paths) : StartsWith(paths[i], debouncers[id].path)}

\* A change happens in the filesystem and the OS reports it: the event joins
\* the batch of every debouncer whose watch covers it, once the front end has
\* taken what was emitted before; a batch holds at most max_batch events.
\* The event carries
\* what WatcherState was when the change happened: idle, after a
\* stop_watching returned and before a later watch_folder stored its
\* debouncer; quiet, idle with no watch_folder that has installed its watch.
Notify(kinds, path_lists, max_batch) ==
    /\ emitted = NoDelivery
    /\ \E kind \in kinds, paths \in path_lists :
          LET idle == watcher_state = None /\ stop_returned
              quiet == idle /\ \A t \in Threads : calls[t].phase /= "installed"
              event == [kind |-> kind, paths |-> paths, idle |-> idle, quiet |-> quiet]
          IN  /\ Watching(paths) /= {}
              /\ \A id \in Watching(paths) : Len(debouncers[id].events) < max_batch
              /\ debouncers' = [id \in 1..MaxSessions |->
                                   IF id \in Watching(paths)
                                   THEN [debouncers[id] EXCEPT
                                            !.events = Append(@, event)]
                                   ELSE debouncers[id]]
    /\ UNCHANGED <<fs, last, pend, watcher_state, calls, emitted, stop_returned>>

\* the thread of a debouncer hands its batch to the callback; a stopped
\* debouncer does so at most once more
Deliver(id) ==
    /\ emitted = NoDelivery
    /\ debouncers[id].state \in {"watching", "stopped"}
    /\ debouncers[id].events /= <<>>
    /\ emitted' = [session |-> id, batch |-> debouncers[id].events,
                    events |-> event_handler(fs, debouncers[id].events)]
    /\ debouncers' = [debouncers EXCEPT
                         ![id] = IF @.state = "stopped" THEN Gone
                                 ELSE [@ EXCEPT !.events = <<>>]]
    /\ UNCHANGED <<fs, last, pend, watcher_state, calls, stop_returned>>

\* the thread of a stopped debouncer ends; what it held is not delivered
ThreadExit(id) ==
    /\ debouncers[id].state = "stopped"
    /\ debouncers' = [debouncers EXCEPT ![id] = Gone]
    /\ UNCHANGED <<fs, last, pend, watcher_state, calls, emitted, stop_returned>>

\* the front end takes the events of the "file-change" channel
TakeEvents ==
    /\ emitted /= NoDelivery
    /\ emitted' = NoDelivery
    /\ UNCHANGED <<fs, last, pend, watcher_state, debouncers, calls, stop_returned>>

----------------------------------------------------------------------------
(* The watcher on a tree that holds notes, a hidden note, a file and a
   directory with another extension, and a second directory. *)

NameD == <<"d">>
NameHiddenNote == <<".", "n", ".", "m", "d">>
NameDottedDir == <<"d", ".", "x">>
NameText == <<"t", ".", "t", "x", "t">>
NameGone == <<"g">>

WatchTree ==
    LET dirs == {Root, <<NameA>>, <<NameA, NameDottedDir>>, <<NameD>>}
        files == {<<NameA, NameNote>>, <<NameA, NameOther>>,
                  <<NameA, NameHiddenNote>>, <<NameD, NameNote>>}
    IN  [p \in dirs \cup files |-> IF p \in dirs THEN DirEntry ELSE FileEntry("x")]

InitWatch ==
    /\ fs = WatchTree
    /\ last = NoCall
    /\ pend = [t \in Threads |-> Idle]
    /\ WatcherInit

\* the folder_path inputs: two directories, a file, a path that does not exist
WatchFolders == {<<NameA>>, <<NameD>>, <<NameA, NameNote>>, MissingPath}

\* the changes the OS reports to the sessions: a note in each directory
WatchedChanges == {<< <<NameA, NameNote>> >>, << <<NameD, NameNote>> >>}

NextWatch ==
    \/ \E t \in Threads :
          \/ WatchFolderCreate(t, WatchFolders)
          \/ WatchFolderWatch(t)
          \/ WatchFolderStore(t)
          \/ StopWatching(t)
          \/ WatcherReturn(t)
    \/ \E id \in 1..MaxSessions :
          \/ Deliver(id)
          \/ ThreadExit(id)
    \/ Notify({"Create"}, WatchedChanges, MaxBatch - 1)
    \/ TakeEvents

SpecWatch == InitWatch /\ [][NextWatch]_vars

\* the sessions: the debouncers whose OS watch is installed
Sessions == {id \in 1..MaxSessions : debouncers[id].state = "watching"}

\* thread t returns from watch_folder in this step
WatchReturns(t) ==
    /\ calls[t].phase \in {"idle", "created", "installed"}
    /\ calls'[t].phase = "returned"
    /\ calls'[t].op = "watch"

\* thread t returns from stop_watching in this step
StopReturns(t) ==
    /\ calls[t].phase = "idle"
    /\ calls'[t].phase = "returned"
    /\ calls'[t].op = "stop"

\* C13: at every point, also during a start issued while Watching and during
\* two concurrent starts, at most one session (an installed OS watch able to
\* deliver events) exists.
C13_AtMostOneSession ==
    Cardinality(Sessions) <= 1

\* C14 as stated: after a start that fails the registry holds no session,
\* from whichever state the call was made.
C14_FailedStartLeavesIdle ==
    [][\A t \in Threads :
          (WatchReturns(t) /\ ~calls'[t].ret.ok) => watcher_state' = None]_vars

\* C14, amended: a start that fails stores no session: the registry is as it
\* was before the call (Idle stays Idle, Watching keeps its session), and
\* the debouncer the call may have created is released.
C14_FailedStartStoresNothing ==
    [][\A t \in Threads :
          (WatchReturns(t) /\ ~calls'[t].ret.ok) =>
              /\ watcher_state' = watcher_state
              /\ stop_returned' = stop_returned
              /\ Sessions' = Sessions
              /\ calls[t].session /= None =>
                    debouncers'[calls[t].session].state \notin {"created", "watching"}]_vars

\* a start failed to install its watch while the registry held a session
C14_Witness ==
    \E t \in Threads :
        /\ calls[t].phase = "returned"
        /\ calls[t].op = "watch"
        /\ calls[t].ret = Err(ErrWatchFolder)
        /\ watcher_state /= None
        /\ debouncers[watcher_state].state = "watching"

\* C15: a start that succeeds while Watching does not fail and replaces the
\* session: the registry then holds the session of that call, the session it
\* held is released, and every session is the registry's or that of a start
\* still in flight; the registry only ever takes the session of the call
\* that stores it, so the last call to take the mutex wins.
C15_StartReplacesSession ==
    /\ [](\A id \in Sessions :
             \/ watcher_state = id
             \/ \E t \in Threads : calls[t].phase = "installed" /\ calls[t].session = id)
    /\ [][\A t \in Threads :
             (calls[t].phase = "installed" /\ calls'[t] /= calls[t]) =>
                 /\ calls'[t] = WatcherReturned("watch", OkUnit)
                 /\ watcher_state' = calls[t].session
                 /\ watcher_state' \in Sessions'
                 /\ watcher_state /= None => watcher_state \notin Sessions']_vars
    /\ [][(watcher_state' /= watcher_state /\ watcher_state' /= None) =>
             \E t \in Threads :
                 /\ calls[t].phase = "installed"
                 /\ calls[t].session = watcher_state'
                 /\ calls'[t].phase = "returned"]_vars

\* a start returned while the session of another directory, now released,
\* still holds a batch
C15_Witness ==
    \E t \in Threads, old \in 1..MaxSessions :
        /\ calls[t] = WatcherReturned("watch", OkUnit)
        /\ watcher_state \in Sessions
        /\ debouncers[old].state = "stopped"
        /\ debouncers[old].events /= <<>>
        /\ debouncers[old].path /= debouncers[watcher_state].path

\* C16: stop succeeds from Idle and from Watching and leaves the registry
\* Idle, the session it held released; a stop from Idle changes nothing, so
\* stops in a row are as one; a start that stores its session after a stop
\* succeeds.
C16_StopIdempotent ==
    /\ [][\A t \in Threads :
             StopReturns(t) =>
                 /\ calls'[t].ret = OkUnit
                 /\ watcher_state' = None
                 /\ watcher_state /= None => watcher_state \notin Sessions'
                 /\ watcher_state = None =>
                       (debouncers' = debouncers /\ watcher_state' = watcher_state)]_vars
    /\ [][\A t \in Threads :
             (stop_returned /\ calls[t].phase = "installed" /\ calls'[t] /= calls[t]) =>
                 (calls'[t].ret = OkUnit /\ watcher_state' = calls[t].session)]_vars

\* two stops have returned in a row, the first from Watching
C16_Witness ==
    /\ \A t \in Threads : calls[t] = WatcherReturned("stop", OkUnit)
    /\ watcher_state = None
    /\ \E id \in 1..MaxSessions : debouncers[id].state = "stopped"

\* the events of the delivered batch for which the callback emitted
EmittedFor ==
    {i \in 1..Len(emitted.batch) :
        \E j \in 1..Len(emitted.events), k \in 1..Len(emitted.batch[i].paths) :
            emitted.events[j].path = emitted.batch[i].paths[k]}

\* C19 as stated: once stop has returned, no event is emitted for a change
\* that happens after that return and before a later start succeeds.
C19_NoEventAfterStop ==
    \A i \in EmittedFor : ~emitted.batch[i].idle

\* C19, amended: once stop has returned, no event is emitted for a change
\* that happens after that return and before a later start installs its
\* watch, which it does before it stores its session and returns.
C19_NoEventWhileQuiet ==
    \A i \in EmittedFor : ~emitted.batch[i].quiet

\* a batch queued before the stop was delivered after it
C19_Witness ==
    /\ emitted.events /= <<>>
    /\ debouncers[emitted.session].state = "gone"
    /\ watcher_state = None
    /\ stop_returned
    /\ \A id \in 1..MaxSessions : debouncers[id].state \in {"none", "gone"}

----------------------------------------------------------------------------
(* The callback alone: one session on the root of the tree, and batches of
   events of every kind on paths of every sort. *)

\* the paths of the events: entries of the tree, a note and a directory that
\* have been removed, and the root, which has no final segment
EventPaths ==
    (DOMAIN WatchTree) \cup {<<NameA, NameText>>, <<NameA, NameGone>>}

\* the paths of one event: one path, or the two paths of a rename
EventPathLists ==
    {<<p>> : p \in EventPaths}
        \cup {<< <<NameA, NameNote>>, <<NameA, NameHiddenNote>> >>,
              << <<NameA, NameOther>>, <<NameA, NameText>> >>}

\* watch_folder is called on the root while nothing is watched
StartOnRoot(t) ==
    /\ watcher_state = None
    /\ \A id \in 1..MaxSessions : debouncers[id].state \in {"none", "gone"}
    /\ WatchFolderCreate(t, {Root})

\* a change of any kind is reported while Watching, no command in flight
ChangeWhileWatching ==
    /\ watcher_state /= None
    /\ \A t \in Threads : calls[t].phase = "idle"
    /\ Notify(EventKinds, EventPathLists, MaxBatch)

NextEvents ==
    \/ \E t \in Threads :
          \/ StartOnRoot(t)
          \/ WatchFolderWatch(t)
          \/ WatchFolderStore(t)
          \/ WatcherReturn(t)
    \/ \E id \in 1..MaxSessions :
          \/ Deliver(id)
          \/ ThreadExit(id)
    \/ ChangeWhileWatching
    \/ TakeEvents

SpecEvents == InitWatch /\ [][NextEvents]_vars

\* the event type the claim gives an OS event kind
ClaimedType(kind) ==
    IF kind = "Create" THEN "create"
    ELSE IF kind = "Modify" THEN "modify"
    ELSE IF kind = "Remove" THEN "remove"
    ELSE "other"

\* the claim's condition on a path: its final segment does not start with
\* '.', and it is a directory or has a note extension
ClaimedEmitted(path) ==
    /\ Len(path) > 0
    /\ Head(path[Len(path)]) /= "."
    /\ \/ (path \in DOMAIN fs /\ fs[path].is_dir)
       \/ HasNoteExtension(path[Len(path)])

\* the (event, path) places of the delivered batch the claim says are emitted
ClaimedPlaces ==
    {pl \in (1..MaxBatch) \X (1..2) :
        /\ pl[1] <= Len(emitted.batch)
        /\ pl[2] <= Len(emitted.batch[pl[1]].paths)
        /\ ClaimedEmitted(emitted.batch[pl[1]].paths[pl[2]])}

\* the events of the places before pl, in the order of the batch
Before(pl) ==
    {q \in ClaimedPlaces : q[1] < pl[1] \/ (q[1] = pl[1] /\ q[2] < pl[2])}

\* C17: while Watching, a path of a debounced event is emitted if and only
\* if its final segment does not start with '.' and it is a directory or has
\* extension md, markdown or txt, once for each place it has in the batch
\* and in the order of the batch; the event type is create, modify or remove
\* by the OS event kind, and other for every other kind.
C17_EmittedIffVisibleNote ==
    emitted /= NoDelivery =>
        /\ Len(emitted.events) = Cardinality(ClaimedPlaces)
        /\ \A pl \in ClaimedPlaces :
              emitted.events[Cardinality(Before(pl)) + 1] =
                  [event_type |-> ClaimedType(emitted.batch[pl[1]].kind),
                   path |-> emitted.batch[pl[1]].paths[pl[2]]]

\* the creation of a note and of a hidden note, and that of a file with
\* another extension, gave exactly one create event, for the note
C17_Witness ==
    /\ Len(emitted.batch) = 2
    /\ emitted.batch[1].kind = "Create"
    /\ emitted.batch[1].paths = << <<NameA, NameNote>>, <<NameA, NameHiddenNote>> >>
    /\ emitted.batch[2].kind = "Create"
    /\ emitted.batch[2].paths = << <<NameA, NameOther>> >>
    /\ emitted.events = <<[event_type |-> "create", path |-> <<NameA, NameNote>>]>>
    /\ watcher_state /= None

====
